---- MODULE Spec2Model ----
(***************************************************************************)
(* Model of the AI News backend (src/main.py, src/schemas.py): the four    *)
(* MongoDB collections the handlers touch, one action per HTTP handler,    *)
(* and the helpers simple_moderation / simple_translate / get_feed.score.  *)
(*                                                                         *)
(* Texts are sequences of one-character strings, so that lower(), the      *)
(* substring test `w in text` and string concatenation are computed.       *)
(* Identifiers carry their Python type: an article's _id is an ObjectId,   *)
(* while path/query/body ids are str; == between the two is False.         *)
(* Time is counted in whole hours.                                         *)
(***************************************************************************)
EXTENDS Integers, Sequences, FiniteSets, TLC

VARIABLES user, session, preference, article, interaction, now, last, verifyOk, authorWasVerified

vars == <<user, session, preference, article, interaction, now, last, verifyOk, authorWasVerified>>

\* ------------------------------------------------------------------ bounds
MaxArticles == 2
MaxClock == 2
MaxLimit == 2

\* ------------------------------------------------------------ Python values
None == "<None>"

Truthy(x) == x \notin {None, ""}

\* bson.ObjectId versus str: equal only to a value of the same type
ObjectId(hex) == [type |-> "ObjectId", hex |-> hex]

PyStr(hex) == [type |-> "str", hex |-> hex]

\* str(ObjectId(...)): the 24-hex-digit text of the id
StrOf(oid) == PyStr(oid.hex)

\* the hex text of the n-th ObjectId the server generates
HexOf(n) == "0" \o ToString(n)

WellFormedHex == {HexOf(n) : n \in 1..(MaxArticles + 1)}

Min(a, b) == IF a <= b THEN a ELSE b

Max(a, b) == IF a >= b THEN a ELSE b

\* ------------------------------------------------------------------- texts
UpperLetters == <<"A","B","C","D","E","F","G","H","I","J","K","L","M","N","O","P","Q","R","S","T","U","V","W","X","Y","Z">>

LowerLetters == <<"a","b","c","d","e","f","g","h","i","j","k","l","m","n","o","p","q","r","s","t","u","v","w","x","y","z">>

LowerChar(c) ==
    IF \E i \in 1..Len(UpperLetters) : UpperLetters[i] = c
    THEN LowerLetters[CHOOSE i \in 1..Len(UpperLetters) : UpperLetters[i] = c]
    ELSE c

\* str.lower()
Lower(text) == [i \in 1..Len(text) |-> LowerChar(text[i])]

\* Python's `w in text` for strings: w occurs as a contiguous substring
Contains(text, w) ==
    \E i \in 0..(Len(text) - Len(w)) : \A j \in 1..Len(w) : text[i + j] = w[j]

BANNED_KEYWORDS == { <<"f","a","k","e">>, <<"t","e","r","r","o","r">>, <<"h","a","t","e">> }

\* f"{title}\n{content}"
ModerationText(title, content) == title \o <<"\n">> \o content

\* a moderation that forgets .lower()
CaseSensitiveModeration(title, content) ==
    LET text == ModerationText(title, content)
        matched == {w \in BANNED_KEYWORDS : Contains(text, w)}
    IN  IF matched # {}
        THEN [status |-> "rejected", notes |-> [text |-> "Contains flagged terms", terms |-> matched]]
        ELSE [status |-> "approved", notes |-> [text |-> "Auto-approved", terms |-> {}]]

simple_moderation(title, content) ==
    LET text == Lower(ModerationText(title, content))
        matched == {w \in BANNED_KEYWORDS : Contains(text, w)}
    IN  IF matched # {}
        THEN [status |-> "rejected", notes |-> [text |-> "Contains flagged terms", terms |-> matched]]
        ELSE [status |-> "approved", notes |-> [text |-> "Auto-approved", terms |-> {}]]

TranslationPrefix(target_lang) == <<"[", target_lang, " translation] ">>

simple_translate(text, target_lang) ==
    IF target_lang = "en" THEN text ELSE TranslationPrefix(target_lang) \o text

\* ------------------------------------------------------------ collections
Put(f, k, v) == [x \in DOMAIN f \cup {k} |-> IF x = k THEN v ELSE f[x]]

\* schemas.User defaults
UserSchema == [is_verified |-> FALSE, language |-> None, region |-> None, categories |-> {}]

\* `pref = db.preference.find_one(...) or {}` read through .get()
EmptyPref == [language |-> None, region |-> None, categories |-> {}]

ADMIN_SECRET == "secret"

LIMIT_GE == 1

LIMIT_LE == 100

Response(op, args, status, body) == [op |-> op, args |-> args, status |-> status, body |-> body]

Init ==
    /\ user = <<>>
    /\ session = {}
    /\ preference = <<>>
    /\ article = <<>>
    /\ interaction = {}
    /\ now = 0
    /\ last = Response("start", <<>>, 0, <<>>)
    /\ verifyOk = {}
    /\ authorWasVerified = {}

\* ------------------------------------------------------------------- auth
\* uid and token are the two uuid4() draws
auth_anonymous(uid, token) ==
    /\ uid \notin DOMAIN user
    /\ user' = Put(user, uid, UserSchema)
    /\ session' = session \cup {[user_id |-> uid, token |-> token]}
    /\ last' = Response("auth_anonymous", <<>>, 200, [user_id |-> uid, token |-> token])
    /\ UNCHANGED <<preference, article, interaction, now, verifyOk, authorWasVerified>>

\* ------------------------------------------------------------ preferences
get_preferences(user_id) ==
    /\ last' = Response("get_preferences", [user_id |-> user_id], 200,
                        IF user_id \in DOMAIN preference THEN preference[user_id] ELSE EmptyPref)
    /\ UNCHANGED <<user, session, preference, article, interaction, now, verifyOk, authorWasVerified>>

set_preferences(user_id, payload) ==
    /\ preference' = Put(preference, user_id, payload)
    /\ user' = IF user_id \in DOMAIN user
               THEN [user EXCEPT ![user_id] =
                        [@ EXCEPT !.language = payload.language,
                                  !.region = payload.region,
                                  !.categories = payload.categories]]
               ELSE user
    /\ last' = Response("set_preferences", [user_id |-> user_id, payload |-> payload], 200, "ok")
    /\ UNCHANGED <<session, article, interaction, now, verifyOk, authorWasVerified>>

\* ---------------------------------------------------------------- articles
create_article(user_id, payload) ==
    LET args == [user_id |-> user_id, payload |-> payload] IN
    IF user_id \notin DOMAIN user
    THEN /\ last' = Response("create_article", args, 404, "User not found")
         /\ UNCHANGED <<user, session, preference, article, interaction, now, verifyOk, authorWasVerified>>
    ELSE LET moderation ==
                 IF ~user[user_id].is_verified
                 THEN [status |-> "pending", notes |-> [text |-> "Awaiting manual review", terms |-> {}]]
                 ELSE simple_moderation(payload.title, payload.content)
             inserted_id == ObjectId(HexOf(Len(article) + 1))
             doc == [ _id |-> inserted_id,
                      title |-> payload.title,
                      content |-> payload.content,
                      author_id |-> user_id,
                      language |-> payload.language,
                      region |-> payload.region,
                      categories |-> payload.categories,
                      is_published |-> TRUE,
                      moderation_status |-> moderation.status,
                      moderation_notes |-> moderation.notes,
                      translated |-> <<>>,
                      created_at |-> now ]
         IN  /\ Len(article) < MaxArticles
             /\ article' = Append(article, doc)
             /\ authorWasVerified' = IF user_id \in verifyOk
                                     THEN authorWasVerified \cup {inserted_id}
                                     ELSE authorWasVerified
             /\ last' = Response("create_article", args, 200,
                                 [id |-> StrOf(inserted_id),
                                  moderation_status |-> doc.moderation_status,
                                  moderation_notes |-> doc.moderation_notes])
             /\ UNCHANGED <<user, session, preference, interaction, now, verifyOk>>

\* -------------------------------------------------------------------- feed
\* db.article.find(base_filter): the stored documents, in store order, that
\* match is_published = True and the language / region keys when present
Matches(a, lang, reg) ==
    /\ a.is_published = TRUE
    /\ (Truthy(lang) => a.language = lang)
    /\ (Truthy(reg) => a.region = reg)

Find(lang, reg) ==
    LET Test(a) == Matches(a, lang, reg) IN SelectSeq(article, Test)

\* liked = {it["article_id"] for it in interactions if it.get("action") == "like"}
Liked(user_id) ==
    {it.article_id : it \in {x \in interaction : x.user_id = user_id /\ x.action = "like"}}

\* age_hours = max(1.0, (now - created) / 3600 s)
AgeHours(a, t) == Max(1, t - a.created_at)

\* get_feed.score without the recency term
ScoreBase(a, cats, liked) ==
      (IF a.moderation_status = "approved" THEN 5 ELSE 0)
    + (IF cats # {} THEN Cardinality(a.categories \cap cats) * 2 ELSE 0)
    + (IF a._id \in liked THEN 3 ELSE 0)

\* get_feed.score as the fraction num / den (= base + 10.0 / age_hours)
score(a, cats, liked, t) ==
    [num |-> ScoreBase(a, cats, liked) * AgeHours(a, t) + 10, den |-> AgeHours(a, t)]

ScoreGE(s1, s2) == s1.num * s2.den >= s2.num * s1.den

ScoreEQ(s1, s2) == s1.num * s2.den = s2.num * s1.den

\* list.sort(key=score, reverse=True): stable, descending by key
InsertDesc(sorted, x) ==
    LET k == Cardinality({i \in DOMAIN sorted : ScoreGE(sorted[i].s, x.s)})
    IN  SubSeq(sorted, 1, k) \o <<x>> \o SubSeq(sorted, k + 1, Len(sorted))

RECURSIVE SortDesc(_)
SortDesc(scored) ==
    IF scored = <<>> THEN <<>>
    ELSE InsertDesc(SortDesc(SubSeq(scored, 1, Len(scored) - 1)), scored[Len(scored)])

\* a slice that keeps one article too many
TakeInclusive(seq, limit) == SubSeq(seq, 1, Min(limit + 1, Len(seq)))

\* articles[:limit]
Take(seq, limit) == SubSeq(seq, 1, Min(limit, Len(seq)))

NeedsTranslation(a, lang) == Truthy(lang) /\ a.language # lang

CacheMiss(a, lang) == lang \notin DOMAIN a.translated

FreshPair(a, lang) ==
    [title |-> simple_translate(a.title, lang), content |-> simple_translate(a.content, lang)]

\* {"$set": {f"translated.{lang}": pair}} on one document
SetTranslated(a, lang, pair) == [a EXCEPT !.translated = Put(@, lang, pair)]

FeedItem(a, lang) ==
    LET translated == IF CacheMiss(a, lang) THEN FreshPair(a, lang) ELSE a.translated[lang]
        tr == NeedsTranslation(a, lang)
    IN  [ id |-> StrOf(a._id),
          title |-> IF tr THEN translated.title ELSE a.title,
          content |-> IF tr THEN translated.content ELSE a.content,
          language |-> IF tr THEN lang ELSE a.language,
          region |-> a.region,
          categories |-> a.categories,
          moderation_status |-> a.moderation_status,
          created_at |-> a.created_at ]

get_feed(user_id, language, region, limit) ==
    LET args == [user_id |-> user_id, language |-> language, region |-> region, limit |-> limit] IN
    IF limit < LIMIT_GE \/ limit > LIMIT_LE
    THEN /\ last' = Response("get_feed", args, 422, "limit out of range")
         /\ UNCHANGED <<user, session, preference, article, interaction, now, verifyOk, authorWasVerified>>
    ELSE LET pref == IF user_id \in DOMAIN preference THEN preference[user_id] ELSE EmptyPref
             lang == IF Truthy(language) THEN language ELSE pref.language
             reg == IF Truthy(region) THEN region ELSE pref.region
             cats == pref.categories
             articles == Find(lang, reg)
             liked == Liked(user_id)
             scored == [i \in DOMAIN articles |-> [a |-> articles[i], s |-> score(articles[i], cats, liked, now)]]
             ranked == SortDesc(scored)
             shown == Take(ranked, limit)
             feed == [i \in DOMAIN shown |-> FeedItem(shown[i].a, lang)]
             written == {shown[i].a._id : i \in {j \in DOMAIN shown :
                            NeedsTranslation(shown[j].a, lang) /\ CacheMiss(shown[j].a, lang)}}
         IN  /\ article' = [i \in DOMAIN article |->
                               IF article[i]._id \in written
                               THEN SetTranslated(article[i], lang, FreshPair(article[i], lang))
                               ELSE article[i]]
             /\ last' = Response("get_feed", args, 200, feed)
             /\ UNCHANGED <<user, session, preference, interaction, now, verifyOk, authorWasVerified>>

\* ---------------------------------------------------------------- translate
\* Line 263 evaluates db.article._Database__client...document_class()(article_id)
\* before the guarded lookup.  `db` is the handle exported by the database
\* module: on a pymongo Collection the attribute access raises AttributeError
\* (and calling the dict instance would raise TypeError), which FastAPI turns
\* into a 500; a handle that tolerates the expression lets the handler go on.
StrayLookupRaises == {TRUE, FALSE}

\* bson.ObjectId(article_id): accepts exactly the well-formed hex strings
ValidObjectId(article_id) == article_id.hex \in WellFormedHex

FindById(oid) == {i \in DOMAIN article : article[i]._id = oid}

translate_article(article_id, target_lang) ==
    LET args == [article_id |-> article_id, target_lang |-> target_lang] IN
    \E raises \in StrayLookupRaises :
       IF raises
       THEN /\ last' = Response("translate_article", args, 500, "Internal Server Error")
            /\ UNCHANGED <<user, session, preference, article, interaction, now, verifyOk, authorWasVerified>>
       ELSE IF ~ValidObjectId(article_id)
       THEN /\ last' = Response("translate_article", args, 400, "Invalid article id")
            /\ UNCHANGED <<user, session, preference, article, interaction, now, verifyOk, authorWasVerified>>
       ELSE IF FindById(ObjectId(article_id.hex)) = {}
       THEN /\ last' = Response("translate_article", args, 404, "Article not found")
            /\ UNCHANGED <<user, session, preference, article, interaction, now, verifyOk, authorWasVerified>>
       ELSE LET i == CHOOSE j \in FindById(ObjectId(article_id.hex)) : TRUE
                pair == FreshPair(article[i], target_lang)
            IN  /\ article' = [article EXCEPT ![i] = SetTranslated(@, target_lang, pair)]
                /\ last' = Response("translate_article", args, 200, pair)
                /\ UNCHANGED <<user, session, preference, interaction, now, verifyOk, authorWasVerified>>

\* ------------------------------------------------------------- interactions
\* The log is append-only and only read as a set of (user, article, action)
\* documents, so it is kept as that set.
create_interaction(user_id, payload) ==
    /\ interaction' = interaction \cup
                          {[user_id |-> user_id, article_id |-> payload.article_id, action |-> payload.action]}
    /\ last' = Response("create_interaction", [user_id |-> user_id, payload |-> payload], 200, "ok")
    /\ UNCHANGED <<user, session, preference, article, now, verifyOk, authorWasVerified>>

\* -------------------------------------------------------------------- admin
\* a verify_user that lets every secret through
AnySecretAuthorized(secret) == TRUE

\* `secret != admin_secret` negated
Authorized(secret) == secret = ADMIN_SECRET

\* verifyOk records the calls made with the admin secret
verify_user(user_id, secret) ==
    LET args == [user_id |-> user_id, secret |-> secret] IN
    IF ~Authorized(secret)
    THEN /\ last' = Response("verify_user", args, 401, "Unauthorized")
         /\ UNCHANGED <<user, session, preference, article, interaction, now, verifyOk, authorWasVerified>>
    ELSE /\ user' = IF user_id \in DOMAIN user
                    THEN [user EXCEPT ![user_id].is_verified = TRUE]
                    ELSE user
         /\ verifyOk' = IF secret = ADMIN_SECRET THEN verifyOk \cup {user_id} ELSE verifyOk
         /\ last' = Response("verify_user", args, 200, [status |-> "ok", user_id |-> user_id])
         /\ UNCHANGED <<session, preference, article, interaction, now, authorWasVerified>>

\* -------------------------------------------------------------------- clock
\* datetime.now(timezone.utc) advances by one hour
Tick ==
    /\ now < MaxClock
    /\ now' = now + 1
    /\ last' = Response("Tick", <<>>, 0, <<>>)
    /\ UNCHANGED <<user, session, preference, article, interaction, verifyOk, authorWasVerified>>

\* ------------------------------------------------------------------ inputs
U1 == "u1"

U2 == "u2"

UserIds == {U1, U2}

TokenOf(uid) == "token-" \o uid

Id(n) == PyStr(HexOf(n))

Languages == {"en", "es"}

T_News == <<"N","e","w","s">>

T_ok == <<"o","k">>

T_Hate == <<"H","a","t","e">>

T_fake == <<"f","a","k","e">>

T_fa == <<"f","a">>

T_ke == <<"k","e">>

T_both == <<"t","e","r","r","o","r"," ","F","A","K","E">>

Payload(title, content, language, region, categories) ==
    [title |-> title, content |-> content, language |-> language, region |-> region, categories |-> categories]

Pref(language, region, categories) ==
    [language |-> language, region |-> region, categories |-> categories]

Secrets == {ADMIN_SECRET, "guess"}

\* -------------------------------------------------- Spec: every handler
AdminPayloads == { Payload(T_News, T_ok, "en", None, {"tech"}), Payload(T_Hate, T_fake, "es", None, {}) }

Next ==
    \/ \E u \in UserIds : auth_anonymous(u, TokenOf(u))
    \/ get_preferences(U1)
    \/ set_preferences(U1, Pref("es", None, {"tech"}))
    \/ \E u \in UserIds, p \in AdminPayloads : create_article(u, p)
    \/ get_feed(U1, "en", None, 1)
    \/ translate_article(Id(1), "es")
    \/ create_interaction(U1, [article_id |-> Id(1), action |-> "like"])
    \/ \E u \in UserIds, k \in Secrets : verify_user(u, k)

Spec == Init /\ [][Next]_vars

\* ------------------------------------------ SpecModerate: the moderation gate
ModerationPayloads ==
    { Payload(T_News, T_ok, "en", None, {}),
      Payload(T_Hate, T_ok, "en", None, {}),
      Payload(T_ok, T_both, "en", None, {}),
      Payload(T_fa, T_ke, "en", None, {}) }

NextModerate ==
    \/ \E u \in UserIds : auth_anonymous(u, TokenOf(u))
    \/ \E k \in Secrets : verify_user(U1, k)
    \/ \E u \in UserIds, p \in ModerationPayloads : create_article(u, p)

SpecModerate == Init /\ [][NextModerate]_vars

\* w occurs in text as the slice text[i..j]
Occurs(w, text) == \E i \in 1..(Len(text) + 1), j \in 0..Len(text) : SubSeq(text, i, j) = w

\* the article the last successful create_article stored
Created == article[Len(article)]

CreatedOk == last.op = "create_article" /\ last.status = 200

\* the status and flagged terms the gate is to give, scanning `text`
GateVerdict(text) ==
    LET matched == {w \in BANNED_KEYWORDS : Occurs(w, Lower(text))}
    IN  IF ~user[Created.author_id].is_verified THEN [status |-> "pending", terms |-> {}]
        ELSE IF matched # {} THEN [status |-> "rejected", terms |-> matched]
        ELSE [status |-> "approved", terms |-> {}]

StoredVerdict == [status |-> Created.moderation_status, terms |-> Created.moderation_notes.terms]

\* C7 as stated: the status create_article stores is pending for an unverified
\* submitter; for a verified one it is rejected, the notes listing every matched
\* keyword, when the lowercased title+content (title directly followed by
\* content) contains a banned keyword, and approved otherwise.
C7_AsStated == CreatedOk => StoredVerdict = GateVerdict(Created.title \o Created.content)

\* C7 amended: as above, the scanned text being the lowercased title, a newline,
\* then the content, so that a keyword split across the two fields is not matched.
C7_Moderation ==
    CreatedOk => StoredVerdict = GateVerdict(Created.title \o <<"\n">> \o Created.content)

C7_Witness ==
    /\ CreatedOk
    /\ user[Created.author_id].is_verified
    /\ Created.moderation_status = "rejected"
    /\ Created.moderation_notes.terms = {<<"t","e","r","r","o","r">>, T_fake}
    /\ \E i \in DOMAIN article : article[i].moderation_status = "pending" /\ article[i].title = T_Hate

\* ------------------------------------------------------- Spec: verification
\* C10 (state part): an approved or rejected article was created after a
\* verify_user call for its author with the admin secret.
C10_VerifiedFirst ==
    \A i \in DOMAIN article :
        article[i].moderation_status \in {"approved", "rejected"} => article[i]._id \in authorWasVerified

\* C10 (step part): verify_user with a wrong secret answers 401 and leaves the
\* users alone; create_article for an unknown user answers 404 and inserts
\* nothing; no step changes the moderation status of a stored article.
C10_Step ==
    /\ (last'.op = "verify_user" /\ last'.args.secret # ADMIN_SECRET)
          => (last'.status = 401 /\ user' = user)
    /\ (last'.op = "create_article" /\ last'.args.user_id \notin DOMAIN user)
          => (last'.status = 404 /\ article' = article)
    /\ \A i \in DOMAIN article :
          i \in DOMAIN article' /\ article'[i].moderation_status = article[i].moderation_status

\* C10: moderation status approved/rejected only after a verify_user call with
\* the admin secret for the author; wrong secret is Unauthorized and changes no
\* flag; unknown user is NotFound and inserts nothing; status never changes.
C10_Moderation == [] C10_VerifiedFirst /\ [][C10_Step]_vars

C10_Witness ==
    /\ last.op = "verify_user" /\ last.status = 401
    /\ \E i \in DOMAIN article : article[i].moderation_status = "approved"
    /\ \E i \in DOMAIN article : article[i].moderation_status = "pending"
    /\ \E i \in DOMAIN article : DOMAIN article[i].translated # {}

\* ------------------------------------- SpecTranslate: the translation cache
TranslatePayloads == { Payload(T_News, T_ok, "en", None, {}), Payload(T_Hate, T_ok, "es", None, {}) }

TranslateIds == {Id(1), Id(2), PyStr("zz")}

NextTranslate ==
    \/ auth_anonymous(U1, TokenOf(U1))
    \/ \E p \in TranslatePayloads : create_article(U1, p)
    \/ \E a \in TranslateIds, l \in Languages : translate_article(a, l)
    \/ \E l \in Languages \cup {None} : get_feed(U1, l, None, MaxLimit)

SpecTranslate == Init /\ [][NextTranslate]_vars

Stored == <<user, session, preference, article, interaction>>

\* the request the step answers, and the article it names (before the step)
TranslateCall == last'.op = "translate_article"

Target == FindById(ObjectId(last'.args.article_id.hex))

\* C5 as stated: translate_article answers 400 for a malformed id and 404 for a
\* well-formed id of no article, and in both cases changes nothing stored.
C5_AsStated ==
    [][ /\ (TranslateCall /\ ~ValidObjectId(last'.args.article_id))
             => (last'.status = 400 /\ Stored' = Stored)
        /\ (TranslateCall /\ ValidObjectId(last'.args.article_id) /\ Target = {})
             => (last'.status = 404 /\ Stored' = Stored) ]_vars

\* C6 as stated: for an existing article translate_article answers with the
\* translated pair and stores it under translated[target_lang], a repeated call
\* answers with the same pair, and every other cache entry of the article and
\* every other article stay as they were.
C6_AsStated ==
    [][ (TranslateCall /\ ValidObjectId(last'.args.article_id) /\ Target # {}) =>
          \A i \in Target :
             LET l == last'.args.target_lang IN
             /\ last'.status = 200
             /\ l \in DOMAIN article'[i].translated
             /\ article'[i].translated[l] = last'.body
             /\ (last.op = "translate_article" /\ last.args = last'.args /\ last.status = 200)
                    => last'.body = last.body
             /\ \A k \in DOMAIN article[i].translated \ {l} :
                    k \in DOMAIN article'[i].translated
                    /\ article'[i].translated[k] = article[i].translated[k]
             /\ \A j \in DOMAIN article \ {i} : article'[j] = article[j] ]_vars

\* the stored article a feed item was made from
ArticleOf(item) == article[CHOOSE i \in DOMAIN article : StrOf(article[i]._id) = item.id]

FeedPayloads ==
    { Payload(T_News, T_ok, "en", "US", {}),
      Payload(T_News, T_ok, "en", None, {}),
      Payload(T_Hate, T_ok, "es", "US", {}) }

FeedPrefs == { Pref("en", None, {}), Pref(None, "US", {}) }

NextFeed ==
    \/ auth_anonymous(U1, TokenOf(U1))
    \/ \E p \in FeedPayloads : create_article(U1, p)
    \/ \E p \in FeedPrefs : set_preferences(U1, p)
    \/ \E u \in UserIds, l \in Languages \cup {None, ""}, r \in {None, "US"}, n \in 0..MaxLimit :
          get_feed(u, l, r, n)

SpecFeed == Init /\ [][NextFeed]_vars

\* the filters a feed request resolves to: the parameter, else the user's
\* stored preference, else none
StoredPref(user_id, field) ==
    IF user_id \in DOMAIN preference THEN preference[user_id][field] ELSE None

Resolved(args, field) ==
    IF args[field] \notin {None, ""} THEN args[field] ELSE StoredPref(args.user_id, field)

Unset(x) == x \in {None, ""}

\* the published articles that match the request's resolved filters exactly
MatchingRequest(args) ==
    {i \in DOMAIN article :
        /\ article[i].is_published
        /\ (~Unset(Resolved(args, "language")) => article[i].language = Resolved(args, "language"))
        /\ (~Unset(Resolved(args, "region")) => article[i].region = Resolved(args, "region"))}

FeedCall == last.op = "get_feed" /\ last.args.limit \in LIMIT_GE..LIMIT_LE

RegionMatches(args) ==
    {i \in DOMAIN article :
        /\ article[i].is_published
        /\ (~Unset(Resolved(args, "region")) => article[i].region = Resolved(args, "region"))}

\* C1 as stated: a feed request with language = "es" shows every published
\* "en" article that matches the region filter and fits in the limit and had no
\* cached "es" entry, as an item with language "es" and non-empty translated
\* title and content, and stores that pair as the article's translated["es"].
C1_AsStated ==
    [][ (last'.op = "get_feed" /\ last'.status = 200 /\ last'.args.language = "es") =>
          \A i \in RegionMatches(last'.args) :
             ( /\ article[i].language = "en"
               /\ "es" \notin DOMAIN article[i].translated
               /\ Cardinality(RegionMatches(last'.args)) <= last'.args.limit )
             => \E k \in DOMAIN last'.body :
                   /\ last'.body[k].id = StrOf(article[i]._id)
                   /\ last'.body[k].language = "es"
                   /\ last'.body[k].title # <<>>
                   /\ last'.body[k].content # <<>>
                   /\ "es" \in DOMAIN article'[i].translated
                   /\ article'[i].translated["es"] =
                         [title |-> last'.body[k].title, content |-> last'.body[k].content] ]_vars

\* ------------------------------------------------- SpecRank: the scorer
RankPayloads == { Payload(T_News, T_ok, "en", None, {"tech", "ai"}), Payload(T_News, T_ok, "en", None, {}) }

Likes == { [article_id |-> Id(1), action |-> "view"], [article_id |-> Id(2), action |-> "like"] }

NextRank ==
    \/ auth_anonymous(U1, TokenOf(U1))
    \/ verify_user(U1, ADMIN_SECRET)
    \/ \E p \in RankPayloads : create_article(U1, p)
    \/ set_preferences(U1, Pref(None, None, {"tech"}))
    \/ \E p \in Likes : create_interaction(U1, p)
    \/ create_interaction(U2, [article_id |-> Id(1), action |-> "like"])
    \/ \E n \in 1..MaxLimit : get_feed(U1, None, None, n)
    \/ Tick

SpecRank == Init /\ [][NextRank]_vars

\* user_id has a "like" interaction on the article, named by the id that
\* create_article returned and the feed shows
HasLiked(user_id, a) ==
    [user_id |-> user_id, article_id |-> StrOf(a._id), action |-> "like"] \in interaction

\* s1 - s2 = n, for scores kept as fractions
ScoreDiffIs(s1, s2, n) == s1.num * s2.den - s2.num * s1.den = n * s1.den * s2.den

Cats(user_id) == IF user_id \in DOMAIN preference THEN preference[user_id].categories ELSE {}

\* C3 as stated: in a feed request the score of an article is exactly 3 higher
\* than without interactions when the requesting user has liked it, and equal
\* when only other actions or other users' likes exist.
C3_AsStated ==
    (last.op = "get_feed" /\ last.status = 200) =>
       \A i \in DOMAIN article :
          LET u == last.args.user_id
              c == Cats(u)
          IN  ScoreDiffIs(score(article[i], c, Liked(u), now),
                          score(article[i], c, {}, now),
                          IF HasLiked(u, article[i]) THEN 3 ELSE 0)

\* the relevance score of C9: approved 5, 2 per shared category, recency, and
\* 3 when the user has liked the article
RelevanceOf(a, user_id) ==
    LET c == Cats(user_id)
        base == (IF a.moderation_status = "approved" THEN 5 ELSE 0)
                + 2 * Cardinality(a.categories \cap c)
                + (IF HasLiked(user_id, a) THEN 3 ELSE 0)
        age == IF now - a.created_at < 1 THEN 1 ELSE now - a.created_at
    IN  [num |-> base * age + 10, den |-> age]

Higher(s1, s2) == s1.num * s2.den > s2.num * s1.den

\* position of an article in the store's answer
StorePos(item) == CHOOSE i \in DOMAIN article : StrOf(article[i]._id) = item.id

\* the feed is the first `limit` candidates by non-increasing Rel, equal scores
\* in store order, nothing left out outranking anything shown
RankedBy(Rel(_, _)) ==
    (last.op = "get_feed" /\ last.status = 200) =>
       LET u == last.args.user_id
           feed == last.body
           shownIds == {feed[k].id : k \in DOMAIN feed}
           candidates == MatchingRequest(last.args)
       IN  /\ Len(feed) = Min(last.args.limit, Cardinality(candidates))
           /\ \A k \in DOMAIN feed : StorePos(feed[k]) \in candidates
           /\ \A k, m \in DOMAIN feed :
                 k < m =>
                    /\ ~Higher(Rel(ArticleOf(feed[m]), u), Rel(ArticleOf(feed[k]), u))
                    /\ ~Higher(Rel(ArticleOf(feed[k]), u), Rel(ArticleOf(feed[m]), u))
                          => StorePos(feed[k]) < StorePos(feed[m])
           /\ \A i \in candidates :
                 StrOf(article[i]._id) \notin shownIds =>
                    \A k \in DOMAIN feed : ~Higher(Rel(article[i], u), Rel(ArticleOf(feed[k]), u))

\* C9 as stated: the feed is ranked by the relevance score that counts the
\* liked bonus.
C9_AsStated == RankedBy(RelevanceOf)

\* the score get_feed computes, for the requesting user
ComputedScore(a, user_id) ==
    score(a, Cats(user_id), Liked(user_id), now)

\* the same ranking statement over the score the handler computes
RankedByComputedScore == RankedBy(ComputedScore)

RankedWitness ==
    /\ last.op = "get_feed" /\ last.status = 200 /\ Len(last.body) = 2
    /\ StorePos(last.body[1]) > StorePos(last.body[2])

RankedTieWitness ==
    /\ last.op = "get_feed" /\ last.status = 200 /\ Len(last.body) = 2
    /\ ScoreEQ(ComputedScore(ArticleOf(last.body[1]), U1), ComputedScore(ArticleOf(last.body[2]), U1))
    /\ ArticleOf(last.body[1]).created_at # ArticleOf(last.body[2]).created_at

====
